---- MODULE Spec2Model ----
(***************************************************************************)
(* Model of git-diff-branch.py: the comparator strategies, Result.merge,   *)
(* BranchDiff.compare_commits, the all-pairs scan of BranchDiff._compare   *)
(* with its SIGINT handler, and the four-section report of                 *)
(* BranchDiff.compare.                                                     *)
(*                                                                         *)
(* Numbers.  Confidences are the exact rationals the code computes,       *)
(* kept as [num, den]; weights are counted in tenths (0.4 is 4, 1.0 is    *)
(* 10).  For summaries shorter than ten characters the float comparisons  *)
(* of the code (>= THRESHOLD, == CONFIDENCE_MAX, the max over scores and  *)
(* the grouping by equal score) agree with the rational ones.             *)
(***************************************************************************)
EXTENDS Integers, Sequences, FiniteSets, TLC

\* ------------------------------------------------------------------ bounds
\* longest range of commits of a run
MaxCommits == 2
\* longest summary of the commits of a single-pair run
MaxLen == 4
\* longest sequence handed to a direct call of Result.merge
MaxResults == 3

\* ------------------------------------------------------------- program constants
\* Result.CONFIDENCE_MAX = 1.0
CONFIDENCE_MAX == [num |-> 1, den |-> 1]
\* Result.WEIGHT_MAX = 1.0, in tenths
WEIGHT_MAX == 10
\* CommitCompare.WEIGHT = 0 and Result.__init__'s self.weight = 0
WEIGHT_NONE == 0
\* CommitCompareSubject.WEIGHT = 0.4, in tenths
WEIGHT_SUBJECT == 4
\* CommitCompareSubject.THRESHOLD = 0.7
THRESHOLD == [num |-> 7, den |-> 10]
\* CommitCompareSafe.WEIGHT = Result.WEIGHT_MAX
WEIGHT_SAFE == WEIGHT_MAX

\* ------------------------------------------------------------------ commits
Alphabet == {"a", "b"}

SeqsUpTo(S, n) == UNION {[1..k -> S] : k \in 0..n}

\* A commit as the script reads it: hexsha, summary, the text of the
\* Change-Id footer of its message (empty: the message has none) and whether
\* its message is malformed (left undecoded, so that the regex search of
\* commit_change_id raises).
Commit(h, s, f, m) == [hexsha |-> h, summary |-> s, footer |-> f, malformed |-> m]

\* Python's None in the place of a commit
NoCommit == Commit("None", <<>>, <<>>, FALSE)

Footers == {<<>>, <<"I", "1">>, <<"i", "1">>, <<"I", "2">>}

\* str.lower() on the characters the footers use
LowerChar(ch) == IF ch = "I" THEN "i" ELSE ch

Lower(str) == [k \in DOMAIN str |-> LowerChar(str[k])]

\* Commit.change_id: the footer of the lowercased message, <<>> for None
commit_change_id(obj) == Lower(obj.footer)

\* the property raises TypeError on a malformed message
ChangeIdRaises(obj) == obj.malformed

\* The repository the runs read their ranges from.  A hash names one commit.
Repository ==
  { Commit("h1", <<"a", "b", "a", "b">>, <<"I", "1">>, FALSE),
    Commit("h2", <<"a", "b", "a", "a">>, <<"i", "1">>, FALSE),
    Commit("h3", <<"a", "b", "a", "b">>, <<>>, FALSE),
    Commit("h4", <<>>, <<>>, FALSE),
    Commit("h5", <<>>, <<"I", "2">>, FALSE),
    Commit("h6", <<"b", "b">>, <<>>, TRUE) }

\* the duplicate-free sequences over S of length at most n
Ranges(S, n) == {r \in SeqsUpTo(S, n) : \A x, y \in DOMAIN r : r[x] = r[y] => x = y}

\* ------------------------------------------------------------------ results
ResultOf(kind, cls, c1, c2, conf, w) ==
  [kind |-> kind, compare_class |-> cls, commit_src |-> c1, commit_dest |-> c2,
   confidence |-> conf, weight |-> w]

\* ResultFail built with Result.CONFIDENCE_MIN = 0.7 instead of 0
ResultFailConfidenceMin(c1, c2) ==
  ResultOf("ResultFail", "None", c1, c2, [num |-> 7, den |-> 10], WEIGHT_NONE)

ResultFail(c1, c2) ==
  ResultOf("ResultFail", "None", c1, c2, [num |-> 0, den |-> 1], WEIGHT_NONE)

ResultMatchPartial(cls, w, c1, c2, conf) ==
  ResultOf("ResultMatchPartial", cls, c1, c2, conf, w)

ResultMatchFull(cls, w, commit) ==
  ResultOf("ResultMatchFull", cls, commit, commit, CONFIDENCE_MAX, w)

\* Result.POSITIVE
POSITIVE(result) == result.kind # "ResultFail"

\* comparisons of rationals with positive denominators
RatEq(x, y) == x.num * y.den = y.num * x.den

RatLeq(x, y) == x.num * y.den <= y.num * x.den

\* value = result.confidence * result.weight
Score(result) ==
  [num |-> result.confidence.num * result.weight, den |-> result.confidence.den * 10]

\* Result.merge taking the last result of the winning group instead of the first
MergeLast(results) ==
  LET keys == {Score(results[k]) : k \in DOMAIN results}
      top == CHOOSE v \in keys : \A w \in keys : RatLeq(w, v)
      group == SelectSeq(results, LAMBDA r : RatEq(Score(r), top))
  IN group[Len(group)]

\* Result.merge on a non-empty sequence: group by score, take the first
\* result of the group of the largest score.
Merge(results) ==
  LET keys == {Score(results[k]) : k \in DOMAIN results}
      top == CHOOSE v \in keys : \A w \in keys : RatLeq(w, v)
      group == SelectSeq(results, LAMBDA r : RatEq(Score(r), top))
  IN group[1]

\* max() of no keys raises ValueError
MergeRaises(results) == results = <<>>

\* ------------------------------------------------------------------ strategies
Min2(x, y) == IF x <= y THEN x ELSE y

Max2(x, y) == IF x >= y THEN x ELSE y

RECURSIVE RowFill(_, _, _, _)
\* one row of the Levenshtein table: acc holds the columns 0..Len(acc)-1
RowFill(prev, ch, t, acc) ==
  IF Len(acc) = Len(t) + 1 THEN acc
  ELSE LET j == Len(acc)
           cost == IF t[j] = ch THEN 0 ELSE 1
           v == Min2(Min2(prev[j + 1] + 1, acc[j] + 1), prev[j] + cost)
       IN RowFill(prev, ch, t, Append(acc, v))

RECURSIVE LevRows(_, _, _, _)
LevRows(s, t, i, prev) ==
  IF i > Len(s) THEN prev[Len(t) + 1]
  ELSE LevRows(s, t, i + 1, RowFill(prev, s[i], t, <<prev[1] + 1>>))

\* editdistance.eval: the Levenshtein distance
EditDistance(s, t) == LevRows(s, t, 1, [j \in 1..(Len(t) + 1) |-> j - 1])

\* the summary strategy left with CommitCompare's default WEIGHT = 0
CommitCompareSubjectNoWeight(commit1, commit2) ==
  LET distance == EditDistance(commit1.summary, commit2.summary)
      longest == Max2(Len(commit1.summary), Len(commit2.summary))
      similarity == [num |-> longest - distance, den |-> longest]
  IN IF distance = 0
     THEN ResultMatchPartial("CommitCompareSubject", WEIGHT_NONE,
                             commit1, commit2, CONFIDENCE_MAX)
     ELSE IF RatLeq(THRESHOLD, similarity)
          THEN ResultMatchPartial("CommitCompareSubject", WEIGHT_NONE,
                                  commit1, commit2, similarity)
          ELSE ResultFail(commit1, commit2)

\* the summary strategy dividing by the length of the first summary, not the longer
CommitCompareSubjectFirstLen(commit1, commit2) ==
  LET distance == EditDistance(commit1.summary, commit2.summary)
      longest == Len(commit1.summary)
      similarity == [num |-> longest - distance, den |-> longest]
  IN IF distance = 0
     THEN ResultMatchPartial("CommitCompareSubject", WEIGHT_SUBJECT,
                             commit1, commit2, CONFIDENCE_MAX)
     ELSE IF longest > 0 /\ RatLeq(THRESHOLD, similarity)
          THEN ResultMatchPartial("CommitCompareSubject", WEIGHT_SUBJECT,
                                  commit1, commit2, similarity)
          ELSE ResultFail(commit1, commit2)

CommitCompareSubject(commit1, commit2) ==
  LET distance == EditDistance(commit1.summary, commit2.summary)
      longest == Max2(Len(commit1.summary), Len(commit2.summary))
      similarity == [num |-> longest - distance, den |-> longest]
  IN IF distance = 0
     THEN ResultMatchPartial("CommitCompareSubject", WEIGHT_SUBJECT,
                             commit1, commit2, CONFIDENCE_MAX)
     ELSE IF RatLeq(THRESHOLD, similarity)
          THEN ResultMatchPartial("CommitCompareSubject", WEIGHT_SUBJECT,
                                  commit1, commit2, similarity)
          ELSE ResultFail(commit1, commit2)

CommitCompareHash(commit1, commit2) ==
  IF commit1.hexsha = commit2.hexsha
  THEN ResultMatchFull("CommitCompareHash", WEIGHT_SAFE, commit1)
  ELSE ResultFail(commit1, commit2)

\* the change-id strategy comparing the footers as written, not lowercased
CommitCompareChangeIdCased(commit1, commit2) ==
  IF /\ commit1.footer # <<>>
     /\ commit2.footer # <<>>
     /\ commit1.footer = commit2.footer
  THEN ResultMatchPartial("CommitCompareChangeId", WEIGHT_SAFE,
                          commit1, commit2, CONFIDENCE_MAX)
  ELSE ResultFail(commit1, commit2)

CommitCompareChangeId(commit1, commit2) ==
  IF /\ commit_change_id(commit1) # <<>>
     /\ commit_change_id(commit2) # <<>>
     /\ commit_change_id(commit1) = commit_change_id(commit2)
  THEN ResultMatchPartial("CommitCompareChangeId", WEIGHT_SAFE,
                          commit1, commit2, CONFIDENCE_MAX)
  ELSE ResultFail(commit1, commit2)

\* both change ids are read (the debug f-string formats them whatever the
\* log level), so either malformed commit makes the strategy raise
CommitCompareChangeIdRaises(commit1, commit2) ==
  ChangeIdRaises(commit1) \/ ChangeIdRaises(commit2)

\* the strategies registered with the summary strategy first
compare_objSubjectFirst ==
  <<"CommitCompareSubject", "CommitCompareHash", "CommitCompareChangeId">>

\* BranchDiff.compare_obj, in registration order
compare_obj == <<"CommitCompareHash", "CommitCompareChangeId", "CommitCompareSubject">>

Call(func, commit1, commit2) ==
  CASE func = "CommitCompareHash" -> CommitCompareHash(commit1, commit2)
    [] func = "CommitCompareChangeId" -> CommitCompareChangeId(commit1, commit2)
    [] func = "CommitCompareSubject" -> CommitCompareSubject(commit1, commit2)

CallRaises(func, commit1, commit2) ==
  func = "CommitCompareChangeId" /\ CommitCompareChangeIdRaises(commit1, commit2)

RECURSIVE StrategyResults(_, _, _, _)
\* the loop of compare_commits from strategy k on: the results collected,
\* stopping after the first one of confidence CONFIDENCE_MAX
StrategyResults(commit1, commit2, k, results) ==
  IF k > Len(compare_obj) THEN results
  ELSE LET result == Call(compare_obj[k], commit1, commit2)
       IN IF RatEq(result.confidence, CONFIDENCE_MAX)
          THEN Append(results, result)
          ELSE StrategyResults(commit1, commit2, k + 1, Append(results, result))

RECURSIVE StrategiesRaise(_, _, _)
\* whether that loop reaches a strategy that raises
StrategiesRaise(commit1, commit2, k) ==
  IF k > Len(compare_obj) THEN FALSE
  ELSE IF CallRaises(compare_obj[k], commit1, commit2) THEN TRUE
       ELSE IF RatEq(Call(compare_obj[k], commit1, commit2).confidence, CONFIDENCE_MAX)
            THEN FALSE
            ELSE StrategiesRaise(commit1, commit2, k + 1)

compare_commits(commit1, commit2) == Merge(StrategyResults(commit1, commit2, 1, <<>>))

compare_commits_raises(commit1, commit2) == StrategiesRaise(commit1, commit2, 1)

\* ------------------------------------------------------------------ state
VARIABLES
  commits1,     \* list(repo.iter_commits(rev_range1))
  commits2,     \* list(repo.iter_commits(rev_range2))
  pc,           \* "start", "scan", "report", "exited"; "call", "returned" for a direct merge
  idx1,         \* position of the outer loop of _compare in commits1
  idx2,         \* position of the inner loop in commits2
  commit1_res,  \* the pair results of the current commit1
  checked,      \* the commits2 entries claimed so far
  results,      \* self.results
  handler,      \* disposition of SIGINT: "SIG_DFL" or "signal_handler"
  section,      \* the next of the four calls of result_print_filter
  printed,      \* the report sections printed so far
  exit_status,  \* exit status of the process, -1 while it runs
  error,        \* the exception that ended the run, "None" if none
  interrupted,  \* SIGINT was delivered to signal_handler
  merge_in,     \* argument of the last call of Result.merge
  merge_out     \* its return value

vars == <<commits1, commits2, pc, idx1, idx2, commit1_res, checked, results, handler,
          section, printed, exit_status, error, interrupted, merge_in, merge_out>>

\* what no call of merge has returned yet
NoResult == ResultFail(NoCommit, NoCommit)

InitRun(c1, c2) ==
  /\ commits1 = c1
  /\ commits2 = c2
  /\ pc = "start"
  /\ idx1 = 1
  /\ idx2 = 1
  /\ commit1_res = <<>>
  /\ checked = <<>>
  /\ results = <<>>
  /\ handler = "SIG_DFL"
  /\ section = 1
  /\ printed = <<>>
  /\ exit_status = -1
  /\ error = "None"
  /\ interrupted = FALSE
  /\ merge_in = <<>>
  /\ merge_out = NoResult

\* a run over two ranges of the repository
Init ==
  \E c1, c2 \in Ranges(Repository, MaxCommits) : InitRun(c1, c2)

\* exit status of an uncaught exception (traceback)
FailureStatus == 1

\* exit status of a script that runs off its end
CompletedStatus == 0

\* an uncaught exception ends the run
Abort(exc) ==
  /\ pc' = "exited"
  /\ error' = exc
  /\ exit_status' = FailureStatus

\* compare() finds self.results empty and enters _compare, up to the
\* installation of signal_handler
CompareStart ==
  /\ pc = "start"
  /\ pc' = "scan"
  /\ results' = <<>>
  /\ checked' = <<>>
  /\ commit1_res' = <<>>
  /\ idx1' = 1
  /\ idx2' = 1
  /\ handler' = "signal_handler"
  /\ UNCHANGED <<commits1, commits2, section, printed, exit_status, error, interrupted,
                 merge_in, merge_out>>

\* one pass of the inner loop: compare_commits(commit1, commit2)
ComparePair ==
  /\ pc = "scan"
  /\ idx1 <= Len(commits1)
  /\ idx2 <= Len(commits2)
  /\ LET commit1 == commits1[idx1]
         commit2 == commits2[idx2]
     IN IF compare_commits_raises(commit1, commit2)
        THEN /\ Abort("TypeError")
             /\ UNCHANGED <<idx2, commit1_res, checked, merge_in, merge_out>>
        ELSE LET result == compare_commits(commit1, commit2)
             IN /\ merge_in' = StrategyResults(commit1, commit2, 1, <<>>)
                /\ merge_out' = result
                /\ commit1_res' = Append(commit1_res, result)
                /\ checked' = IF POSITIVE(result) THEN Append(checked, commit2) ELSE checked
                /\ idx2' = idx2 + 1
                /\ UNCHANGED <<pc, error, exit_status>>
  /\ UNCHANGED <<commits1, commits2, idx1, results, handler, section, printed, interrupted>>

\* the end of a pass recording every pair result instead of the merged one
MergeCommitExtend ==
  /\ pc = "scan"
  /\ idx1 <= Len(commits1)
  /\ idx2 > Len(commits2)
  /\ merge_in' = commit1_res
  /\ IF MergeRaises(commit1_res)
     THEN /\ Abort("ValueError")
          /\ UNCHANGED <<idx1, idx2, commit1_res, results, merge_out>>
     ELSE /\ merge_out' = Merge(commit1_res)
          /\ results' = results \o commit1_res
          /\ commit1_res' = <<>>
          /\ idx1' = idx1 + 1
          /\ idx2' = 1
          /\ UNCHANGED <<pc, error, exit_status>>
  /\ UNCHANGED <<commits1, commits2, checked, handler, section, printed, interrupted>>

\* the end of a pass of the outer loop: Result.merge(commit1_res)
MergeCommit ==
  /\ pc = "scan"
  /\ idx1 <= Len(commits1)
  /\ idx2 > Len(commits2)
  /\ merge_in' = commit1_res
  /\ IF MergeRaises(commit1_res)
     THEN /\ Abort("ValueError")
          /\ UNCHANGED <<idx1, idx2, commit1_res, results, merge_out>>
     ELSE /\ merge_out' = Merge(commit1_res)
          /\ results' = Append(results, Merge(commit1_res))
          /\ commit1_res' = <<>>
          /\ idx1' = idx1 + 1
          /\ idx2' = 1
          /\ UNCHANGED <<pc, error, exit_status>>
  /\ UNCHANGED <<commits1, commits2, checked, handler, section, printed, interrupted>>

\* the unclaimed commits taken without looking at checked
UnclaimedAll(commits, claimed) == commits

\* [comt for comt in commits2 if comt not in checked]
Unclaimed(commits, claimed) ==
  SelectSeq(commits, LAMBDA comt : \A k \in DOMAIN claimed : claimed[k] # comt)

\* one ResultFail(None, commit) per commit, in order
OnlyInB(commits) == [k \in DOMAIN commits |-> ResultFail(NoCommit, commits[k])]

\* after the outer loop: SIGINT back to its default, the unclaimed commits2
\* recorded
ScanFinish ==
  /\ pc = "scan"
  /\ idx1 > Len(commits1)
  /\ handler' = "SIG_DFL"
  /\ results' = results \o OnlyInB(Unclaimed(commits2, checked))
  /\ pc' = "report"
  /\ section' = 1
  /\ UNCHANGED <<commits1, commits2, idx1, idx2, commit1_res, checked, printed,
                 exit_status, error, interrupted, merge_in, merge_out>>

\* the filter_cond of the k-th call of result_print_filter
FilterCond(k, result) ==
  CASE k = 1 -> result.kind = "ResultMatchFull"
    [] k = 2 -> result.kind = "ResultMatchPartial"
    [] k = 3 -> result.kind = "ResultFail" /\ result.commit_src # NoCommit
    [] k = 4 -> result.kind = "ResultFail" /\ result.commit_src = NoCommit

Bucket(k, all) == SelectSeq(all, LAMBDA result : FilterCond(k, result))

\* one call of result_print_filter: nothing printed for an empty bucket
ResultPrintFilter ==
  /\ pc = "report"
  /\ section <= 4
  /\ printed' = IF Bucket(section, results) = <<>> THEN printed
                ELSE Append(printed, [title |-> section, lines |-> Bucket(section, results)])
  /\ section' = section + 1
  /\ UNCHANGED <<commits1, commits2, pc, idx1, idx2, commit1_res, checked, results,
                 handler, exit_status, error, interrupted, merge_in, merge_out>>

\* the script runs off its end
Exit ==
  /\ pc = "report"
  /\ section > 4
  /\ pc' = "exited"
  /\ exit_status' = CompletedStatus
  /\ UNCHANGED <<commits1, commits2, idx1, idx2, commit1_res, checked, results, handler,
                 section, printed, error, interrupted, merge_in, merge_out>>

\* signal_handler: bar.finish(); sys.exit(0)
SignalHandlerStatus == 0

\* signal_handler returning instead of exiting: the scan goes on
SignalHandlerReturns ==
  /\ pc = "scan"
  /\ handler = "signal_handler"
  /\ ~interrupted
  /\ interrupted' = TRUE
  /\ UNCHANGED <<commits1, commits2, pc, idx1, idx2, commit1_res, checked, results, handler,
                 section, printed, exit_status, error, merge_in, merge_out>>

\* signal_handler exiting with the failure status
SignalHandlerFails ==
  /\ pc = "scan"
  /\ handler = "signal_handler"
  /\ interrupted' = TRUE
  /\ pc' = "exited"
  /\ exit_status' = FailureStatus
  /\ UNCHANGED <<commits1, commits2, idx1, idx2, commit1_res, checked, results, handler,
                 section, printed, error, merge_in, merge_out>>

\* SIGINT while signal_handler is installed
SignalHandler ==
  /\ pc = "scan"
  /\ handler = "signal_handler"
  /\ interrupted' = TRUE
  /\ pc' = "exited"
  /\ exit_status' = SignalHandlerStatus
  /\ UNCHANGED <<commits1, commits2, idx1, idx2, commit1_res, checked, results, handler,
                 section, printed, error, merge_in, merge_out>>

\* the statuses python gives a run ended by KeyboardInterrupt (that of any
\* uncaught exception before python 3.8, 130 as seen by the shell since)
KeyboardInterruptStatus == {FailureStatus, 130}

\* SIGINT under the default disposition: KeyboardInterrupt, uncaught
KeyboardInterrupt ==
  /\ pc \in {"start", "report"}
  /\ handler = "SIG_DFL"
  /\ pc' = "exited"
  /\ error' = "KeyboardInterrupt"
  /\ \E st \in KeyboardInterruptStatus : exit_status' = st
  /\ UNCHANGED <<commits1, commits2, idx1, idx2, commit1_res, checked, results, handler,
                 section, printed, interrupted, merge_in, merge_out>>

Next ==
  \/ CompareStart
  \/ ComparePair
  \/ MergeCommit
  \/ ScanFinish
  \/ ResultPrintFilter
  \/ Exit
  \/ SignalHandler
  \/ KeyboardInterrupt

Spec == Init /\ [][Next]_vars

\* ------------------------------------------------------- single-pair runs
Summaries == SeqsUpTo(Alphabet, MaxLen)

\* a run over rangeA = [c1], rangeB = [c2]: c2 is c1 itself or any commit of
\* another hash
InitPair ==
  \E s1, s2 \in Summaries, f1, f2 \in Footers, same \in BOOLEAN :
    LET c1 == Commit("h1", s1, f1, FALSE)
        c2 == IF same THEN c1 ELSE Commit("h2", s2, f2, FALSE)
    IN InitRun(<<c1>>, <<c2>>)

SpecPair == InitPair /\ [][Next]_vars

\* ------------------------------------------------- direct calls of Result.merge
\* the results the three strategies give for the first commit of the
\* repository against the well-formed ones
ResultPool ==
  LET src == CHOOSE c \in Repository : c.hexsha = "h1"
  IN {Call(compare_obj[k], src, c2) : k \in DOMAIN compare_obj,
                                       c2 \in {c \in Repository : ~c.malformed}}

InitMerge ==
  /\ commits1 = <<>>
  /\ commits2 = <<>>
  /\ pc = "call"
  /\ idx1 = 1
  /\ idx2 = 1
  /\ commit1_res = <<>>
  /\ checked = <<>>
  /\ results = <<>>
  /\ handler = "SIG_DFL"
  /\ section = 1
  /\ printed = <<>>
  /\ exit_status = -1
  /\ error = "None"
  /\ interrupted = FALSE
  /\ merge_in \in SeqsUpTo(ResultPool, MaxResults)
  /\ merge_out = NoResult

\* Result.merge(merge_in)
MergeCall ==
  /\ pc = "call"
  /\ IF MergeRaises(merge_in)
     THEN /\ Abort("ValueError")
          /\ UNCHANGED merge_out
     ELSE /\ merge_out' = Merge(merge_in)
          /\ pc' = "returned"
          /\ UNCHANGED <<error, exit_status>>
  /\ UNCHANGED <<commits1, commits2, idx1, idx2, commit1_res, checked, results, handler,
                 section, printed, interrupted, merge_in>>

NextMerge == MergeCall

SpecMerge == InitMerge /\ [][NextMerge]_vars

\* ------------------------------------------------------------------ claims
\* the scan of _compare ran to its end and the unclaimed commits are recorded
ScanDone == pc = "report"

\* the results that place their destination in a bucket of rangeB commits
PlacesB(result) == POSITIVE(result) \/ result.commit_src = NoCommit

\* C1: after _compare every rangeB commit is the destination of exactly one
\* result among the Full Match, Partial Match and absent-source Fail results.
C1_EveryRangeBCommitInOneBucket ==
  ScanDone =>
    \A k \in DOMAIN commits2 :
      Cardinality({n \in DOMAIN results :
                     PlacesB(results[n]) /\ results[n].commit_dest = commits2[k]}) = 1

\* C2: after the scan, the result recorded for a rangeA commit whose hash
\* some rangeB commit has is a Full Match of confidence 1.0 (the hash
\* strategy gives that pair a Full Match of confidence 1.0).
C2_SameHashIsIdentical ==
  ScanDone =>
    \A k \in DOMAIN commits1 :
      \A m \in DOMAIN commits2 :
        commits1[k].hexsha = commits2[m].hexsha =>
          /\ CommitCompareHash(commits1[k], commits2[m]).kind = "ResultMatchFull"
          /\ RatEq(CommitCompareHash(commits1[k], commits2[m]).confidence, CONFIDENCE_MAX)
          /\ results[k].kind = "ResultMatchFull"

\* the two commits do not share a change id
NoCommonChangeId(a, b) ==
  \/ Lower(a.footer) = <<>>
  \/ Lower(b.footer) = <<>>
  \/ Lower(a.footer) # Lower(b.footer)

\* C3: for a pair of commits of different hashes, no common change id and
\* two empty summaries, the summary strategy returns Fail and compare_commits
\* returns Fail.
C3_EmptySummariesFail ==
  \A n \in DOMAIN commit1_res :
    LET a == commits1[idx1]
        b == commits2[n]
    IN (a.summary = <<>> /\ b.summary = <<>> /\ a.hexsha # b.hexsha /\ NoCommonChangeId(a, b))
         => /\ CommitCompareSubject(a, b).kind = "ResultFail"
            /\ commit1_res[n].kind = "ResultFail"

\* confidence x weight of result x is at most that of result y
ScoreAtMost(x, y) ==
  x.confidence.num * x.weight * y.confidence.den
    <= y.confidence.num * y.weight * x.confidence.den

\* the positions of seq whose score no other position exceeds
TopPositions(seq) == {k \in DOMAIN seq : \A m \in DOMAIN seq : ScoreAtMost(seq[m], seq[k])}

\* C4: Result.merge of a non-empty sequence returns the element of maximal
\* confidence x weight that comes first in the sequence; one Full Match among
\* Fails is returned.
C4_MergeReturnsFirstMaximal ==
  pc = "returned" =>
    /\ \E k \in TopPositions(merge_in) :
         /\ \A m \in TopPositions(merge_in) : k <= m
         /\ merge_out = merge_in[k]
    /\ (/\ Cardinality({k \in DOMAIN merge_in : merge_in[k].kind = "ResultMatchFull"}) = 1
        /\ \A k \in DOMAIN merge_in : merge_in[k].kind \in {"ResultMatchFull", "ResultFail"})
         => merge_out.kind = "ResultMatchFull"

\* a merge of several results whose first and last maximal elements differ
C4_Witness ==
  /\ pc = "returned"
  /\ Len(merge_in) = MaxResults
  /\ \E k, m \in TopPositions(merge_in) : k < m /\ merge_in[k] # merge_in[m]
  /\ 1 \notin TopPositions(merge_in)

\* C5: Result.merge is never called with an empty sequence, so no run ends
\* on merge's error.
C5_MergeNeverEmpty == error # "ValueError"

\* C6: once SIGINT has interrupted the scan, no report section is printed.
C6_NoReportAfterInterrupt == interrupted => printed = <<>>

\* a scan interrupted after it recorded results for part of rangeA
C6_Witness ==
  /\ interrupted
  /\ pc = "exited"
  /\ results # <<>>
  /\ idx1 <= Len(commits1)

\* C7: the exit status of a run cancelled during the scan is neither the
\* status of a completed run nor the failure status.
C7_CancelledStatusDistinct ==
  (pc = "exited" /\ interrupted) => exit_status \notin {CompletedStatus, FailureStatus}

\* C7 as amended: a run cancelled during the scan exits with the status of a
\* completed run, which is not the failure status.
C7_CancelledStatusIsCompleted ==
  (pc = "exited" /\ interrupted) =>
    /\ exit_status = CompletedStatus
    /\ exit_status # FailureStatus

\* a run cancelled between two comparisons of one rangeA commit
C7_Witness ==
  /\ pc = "exited"
  /\ interrupted
  /\ commit1_res # <<>>
  /\ idx2 <= Len(commits2)

\* C8: a strategy failing on a pair does not end the run: the pair gets a
\* Fail result and the scan goes on.
C8_StrategyFailureIsLocal ==
  /\ error # "TypeError"
  /\ \A n \in DOMAIN commit1_res :
       compare_commits_raises(commits1[idx1], commits2[n]) =>
         commit1_res[n] = ResultFail(commits1[idx1], commits2[n])

\* the pair has different hashes and one common, non-empty change id
SharedChangeId(a, b) ==
  /\ a.hexsha # b.hexsha
  /\ Lower(a.footer) # <<>>
  /\ Lower(a.footer) = Lower(b.footer)

\* C9: for a pair of different hashes and one non-empty common change id,
\* compare_commits returns the change-id strategy's Partial Match of
\* confidence 1.0, whatever the summaries; rangeA=[a], rangeB=[b] reports the
\* pair as Matched-with-changes with confidence 1.0.
C9_ChangeIdPartialMatch ==
  /\ \A n \in DOMAIN commit1_res :
       SharedChangeId(commits1[idx1], commits2[n]) =>
         /\ commit1_res[n].kind = "ResultMatchPartial"
         /\ commit1_res[n].compare_class = "CommitCompareChangeId"
         /\ commit1_res[n].confidence.num = commit1_res[n].confidence.den
         /\ commit1_res[n].commit_src = commits1[idx1]
         /\ commit1_res[n].commit_dest = commits2[n]
  /\ (/\ Len(commits1) = 1
      /\ Len(commits2) = 1
      /\ SharedChangeId(commits1[1], commits2[1])
      /\ pc = "exited"
      /\ exit_status = CompletedStatus
      /\ ~interrupted)
       => /\ Len(printed) = 1
          /\ printed[1].title = 2
          /\ Len(printed[1].lines) = 1
          /\ printed[1].lines[1].commit_src = commits1[1]
          /\ printed[1].lines[1].commit_dest = commits2[1]
          /\ printed[1].lines[1].confidence.num = printed[1].lines[1].confidence.den

\* a completed run over such a pair whose summaries are too far apart for the
\* summary strategy to match, and whose footers differ in case
C9_Witness ==
  /\ Len(commits1) = 1
  /\ Len(commits2) = 1
  /\ SharedChangeId(commits1[1], commits2[1])
  /\ commits1[1].footer # commits2[1].footer
  /\ EditDistance(commits1[1].summary, commits2[1].summary) = MaxLen
  /\ pc = "exited"
  /\ exit_status = CompletedStatus
  /\ ~interrupted

\* some rangeA commit has a positive pair result against b
Claimed(b) ==
  \E k \in DOMAIN commits1 :
    \E func \in {compare_obj[x] : x \in DOMAIN compare_obj} :
      POSITIVE(Call(func, commits1[k], b))

\* C10: after the scan the absent-source Fail results are, once each, the
\* rangeB commits that no rangeA commit claimed; with an empty rangeA they
\* are all of rangeB and the other buckets are empty.
C10_OnlyInBAreTheUnclaimed ==
  ScanDone =>
    /\ \A k \in DOMAIN commits2 :
         Cardinality({n \in DOMAIN results :
                        /\ results[n].kind = "ResultFail"
                        /\ results[n].commit_src = NoCommit
                        /\ results[n].commit_dest = commits2[k]})
           = IF Claimed(commits2[k]) THEN 0 ELSE 1
    /\ \A n \in DOMAIN results :
         results[n].commit_src = NoCommit =>
           /\ results[n].kind = "ResultFail"
           /\ \E k \in DOMAIN commits2 : results[n].commit_dest = commits2[k]
    /\ commits1 = <<>> =>
         /\ Len(results) = Len(commits2)
         /\ \A n \in DOMAIN results : results[n] = ResultFail(NoCommit, commits2[n])

\* a finished scan that leaves one rangeB commit claimed and another unclaimed
C10_Witness ==
  /\ ScanDone
  /\ commits1 # <<>>
  /\ \E k, m \in DOMAIN commits2 : Claimed(commits2[k]) /\ ~Claimed(commits2[m])
  /\ section > 4

\* the summary strategy was called in the last compare_commits of the scan
SubjectCalled == pc = "scan" /\ commit1_res # <<>> /\ Len(merge_in) = Len(compare_obj)

\* C11: the summary strategy gives the pair (a, b) a result of the same kind
\* and the same confidence as it gives the pair (b, a): for the pairs of the
\* two ranges, and for the result the scan has just stored.
C11_SubjectSymmetric ==
  /\ pc = "start" =>
       \A k \in DOMAIN commits1 :
         \A m \in DOMAIN commits2 :
           LET forth == CommitCompareSubject(commits1[k], commits2[m])
               back == CommitCompareSubject(commits2[m], commits1[k])
           IN forth.kind = back.kind /\ RatEq(forth.confidence, back.confidence)
  /\ SubjectCalled =>
       LET stored == merge_in[Len(merge_in)]
           back == CommitCompareSubject(commits2[idx2 - 1], commits1[idx1])
       IN stored.kind = back.kind /\ RatEq(stored.confidence, back.confidence)

\* the summary strategy has matched two summaries of different lengths with a
\* confidence below 1.0
C11_Witness ==
  /\ SubjectCalled
  /\ Len(commits1[idx1].summary) < Len(commits2[idx2 - 1].summary)
  /\ merge_in[Len(merge_in)].kind = "ResultMatchPartial"
  /\ merge_in[Len(merge_in)].compare_class = "CommitCompareSubject"
  /\ merge_in[Len(merge_in)].confidence.num < merge_in[Len(merge_in)].confidence.den

\* the results of all the registered strategies for a pair, none skipped
AllStrategyResults(a, b) == [k \in DOMAIN compare_obj |-> Call(compare_obj[k], a, b)]

\* two results agree in kind, confidence and weight
SameOutcome(x, y) ==
  /\ x.kind = y.kind
  /\ RatEq(x.confidence, y.confidence)
  /\ x.weight = y.weight

\* the last compare_commits of the scan stopped before the last strategy
StrategiesSkipped == pc = "scan" /\ commit1_res # <<>> /\ Len(merge_in) < Len(compare_obj)

\* C12: for every pair on which the strategies return, the result of
\* compare_commits (the merge of the results up to the first one of confidence
\* 1.0) has the kind, confidence and weight of the merge of the results of all
\* three strategies in registration order: for the pairs of the two ranges,
\* and for the result the scan has just stored.
C12_ShortCircuitKeepsOutcome ==
  /\ pc = "start" =>
       \A k \in DOMAIN commits1 :
         \A m \in DOMAIN commits2 :
           (~commits1[k].malformed /\ ~commits2[m].malformed) =>
             SameOutcome(compare_commits(commits1[k], commits2[m]),
                         Merge(AllStrategyResults(commits1[k], commits2[m])))
  /\ (pc = "scan" /\ commit1_res # <<>>
        /\ ~commits1[idx1].malformed /\ ~commits2[idx2 - 1].malformed) =>
       SameOutcome(commit1_res[idx2 - 1],
                   Merge(AllStrategyResults(commits1[idx1], commits2[idx2 - 1])))

\* the change-id strategy ended the loop and the skipped summary strategy
\* would have matched the pair too
C12_Witness ==
  /\ StrategiesSkipped
  /\ merge_out.compare_class = "CommitCompareChangeId"
  /\ CommitCompareSubject(commits1[idx1], commits2[idx2 - 1]).kind = "ResultMatchPartial"

Range(seq) == {seq[k] : k \in DOMAIN seq}

\* every result the state holds: recorded, collected for the current commit,
\* given to or returned by the last merge, or printed
ResultsHeld ==
  Range(results) \cup Range(commit1_res) \cup Range(merge_in) \cup {merge_out}
    \cup UNION {Range(printed[k].lines) : k \in DOMAIN printed}

\* C13: every result created or recorded has a confidence and a weight within
\* [0.0, 1.0]; a Fail has confidence 0; a Full Match has confidence 1.0, the
\* same hash for source and destination, and is only given to a pair of
\* commits of the same hash.
C13_ResultInvariant ==
  /\ \A r \in ResultsHeld :
       /\ 0 <= r.confidence.num
       /\ r.confidence.num <= r.confidence.den
       /\ 0 <= r.weight
       /\ r.weight <= WEIGHT_MAX
       /\ r.kind = "ResultFail" => r.confidence.num = 0
       /\ r.kind = "ResultMatchFull" =>
            /\ r.confidence.num = r.confidence.den
            /\ r.commit_src.hexsha = r.commit_dest.hexsha
  /\ \A n \in DOMAIN commit1_res :
       commit1_res[n].kind = "ResultMatchFull" =>
         commits1[idx1].hexsha = commits2[n].hexsha

\* a report that has printed a summary match of confidence below 1.0
C13_Witness ==
  /\ pc = "report"
  /\ \E k \in DOMAIN printed :
       \E r \in Range(printed[k].lines) :
         /\ r.kind = "ResultMatchPartial"
         /\ r.compare_class = "CommitCompareSubject"
         /\ 0 < r.confidence.num
         /\ r.confidence.num < r.confidence.den

\* the buckets of rangeA commits a result falls in: 1 Identical, 2
\* Matched-with-changes, 3 Only-in-A
BucketsA(result) ==
  {b \in 1..3 :
     CASE b = 1 -> result.kind = "ResultMatchFull"
       [] b = 2 -> result.kind = "ResultMatchPartial"
       [] b = 3 -> result.kind = "ResultFail" /\ result.commit_src # NoCommit}

\* C14: after a completed scan with a non-empty rangeB, results holds one
\* present-source result per rangeA commit, in rangeA order, ahead of every
\* absent-source result; each rangeA commit is in exactly one of Identical,
\* Matched-with-changes and Only-in-A.
C14_OneResultPerRangeACommit ==
  (ScanDone /\ commits2 # <<>>) =>
    /\ Len(results) >= Len(commits1)
    /\ \A n \in DOMAIN results :
         IF n <= Len(commits1)
         THEN /\ results[n].commit_src = commits1[n]
              /\ Cardinality(BucketsA(results[n])) = 1
         ELSE /\ results[n].commit_src = NoCommit
              /\ BucketsA(results[n]) = {}
    /\ \A k \in DOMAIN commits1 :
         Cardinality({n \in DOMAIN results : results[n].commit_src = commits1[k]}) = 1

\* a finished scan of full ranges whose rangeA results are of two kinds and
\* are followed by an absent-source result
C14_Witness ==
  /\ ScanDone
  /\ Len(commits1) = MaxCommits
  /\ Len(commits2) = MaxCommits
  /\ Len(results) > Len(commits1)
  /\ results[1].kind # results[Len(commits1)].kind

\* no strategy matches a with b
NoStrategyMatches(a, b) ==
  \A x \in DOMAIN compare_obj : Call(compare_obj[x], a, b).kind = "ResultFail"

\* the rangeA commits printed under "Commits only in <rangeA>"
PrintedOnlyInA ==
  UNION {{printed[k].lines[n].commit_src : n \in DOMAIN printed[k].lines} :
           k \in {x \in DOMAIN printed : printed[x].title = 3}}

\* C15: after a completed scan with a non-empty rangeB, a rangeA commit is in
\* Only-in-A exactly when no strategy matches it with any rangeB commit: one
\* positive pair result is enough to keep it out.
C15_OnlyInAIffNothingMatches ==
  (ScanDone /\ commits2 # <<>>) =>
    \A k \in DOMAIN commits1 :
      LET unmatched == \A m \in DOMAIN commits2 : NoStrategyMatches(commits1[k], commits2[m])
      IN /\ (results[k].kind = "ResultFail") <=> unmatched
         /\ section > 3 => ((commits1[k] \in PrintedOnlyInA) <=> unmatched)

\* a printed report in which a rangeA commit that fails against the first
\* rangeB commit is kept out of Only-in-A by a summary match of confidence
\* below 1.0 with a later one
C15_Witness ==
  /\ ScanDone
  /\ section > 3
  /\ Len(commits2) > 1
  /\ \E k \in DOMAIN commits1 :
       /\ NoStrategyMatches(commits1[k], commits2[1])
       /\ results[k].compare_class = "CommitCompareSubject"
       /\ results[k].confidence.num < results[k].confidence.den
       /\ commits1[k] \notin PrintedOnlyInA

====
